---- MODULE Spec2Model ----
(***************************************************************************)
(* Model of the Wordle solver bot in src/main.py: the clue parser, the     *)
(* batch parser, the constraint filter, the letter-frequency scorer and    *)
(* the per-user sessions driven by the /start, /reset, /other and text     *)
(* handlers.                                                                *)
(*                                                                         *)
(* A Python string is a sequence of characters; a character is a record    *)
(* [t, c] where t is its class and c its identity:                         *)
(*   "sq" a colour square (c = "G" green, "Y" yellow, "R" red),            *)
(*   "lo"/"up" an ASCII lower/upper-case letter, "mb" a Mathematical       *)
(*   Sans-Serif Bold capital, "ws" whitespace (c = "sp" or "nl"),          *)
(*   "st" the asterisk, "ot" any other character.                          *)
(***************************************************************************)
EXTENDS Integers, Sequences, FiniteSets, TLC

\* ------------------------------------------------------------------ bounds
MaxClues == 3       \* clues stored over all sessions (Spec)
MaxFilterClues == 2 \* length of the clue list given to the filter (SpecFilter)
MaxCand == 3        \* length of the candidate list given to the scorer (SpecScore)

\* -------------------------------------------------------------- characters
Sq(c) == [t |-> "sq", c |-> c]
Lo(c) == [t |-> "lo", c |-> c]
Up(c) == [t |-> "up", c |-> c]
Mb(c) == [t |-> "mb", c |-> c]
SP == [t |-> "ws", c |-> "sp"]
NL == [t |-> "ws", c |-> "nl"]
STAR == [t |-> "st", c |-> "*"]
HASH == [t |-> "ot", c |-> "#"]

GREEN == Sq("G")
YELLOW == Sq("Y")
RED == Sq("R")

WordLen == 5

IsSquare(ch) == ch.t = "sq"
IsSpace(ch) == ch.t = "ws"

\* str.lower() on one character
LowerChar(ch) == IF ch.t = "up" THEN Lo(ch.c) ELSE ch
lower(s) == [i \in 1..Len(s) |-> LowerChar(s[i])]

\* math_bold_to_regular.get(char, char)
math_bold_to_regular(ch) == IF ch.t = "mb" THEN Up(ch.c) ELSE ch
convert_math_bold_to_regular(text) == [i \in 1..Len(text) |-> math_bold_to_regular(text[i])]

Range(s) == {s[i] : i \in 1..Len(s)}
Min(a, b) == IF a < b THEN a ELSE b

\* ------------------------------------------------------- string primitives
\* the least index >= i that does not hold whitespace (Len(s)+1 when none)
RECURSIVE SkipSpaces(_, _)
SkipSpaces(s, i) ==
    IF i <= Len(s) /\ IsSpace(s[i]) THEN SkipSpaces(s, i + 1) ELSE i

\* the greatest index <= i that does not hold whitespace (0 when none)
RECURSIVE SkipSpacesBack(_, _)
SkipSpacesBack(s, i) ==
    IF i >= 1 /\ IsSpace(s[i]) THEN SkipSpacesBack(s, i - 1) ELSE i

\* str.strip()
strip(s) == SubSeq(s, SkipSpaces(s, 1), SkipSpacesBack(s, Len(s)))

\* variant: the whitespace between the squares is kept
RemoveSpaces_Kept(s) == s

\* re.sub(r'\s+', '', s)
RemoveSpaces(s) == SelectSeq(s, LAMBDA ch : ~IsSpace(ch))

\* sub occurs in s at index i
OccursAt(s, sub, i) ==
    /\ i >= 1
    /\ i + Len(sub) - 1 <= Len(s)
    /\ SubSeq(s, i, i + Len(sub) - 1) = sub

\* s.split(sub)[0]: what precedes the first occurrence of sub, or all of s
SplitFirst(s, sub) ==
    LET hits == {i \in 1..Len(s) : OccursAt(s, sub, i)}
    IN  IF hits = {} THEN s
        ELSE SubSeq(s, 1, (CHOOSE i \in hits : \A j \in hits : i <= j) - 1)

\* s.split('\n')
RECURSIVE SplitLines(_)
SplitLines(s) ==
    LET nls == {i \in 1..Len(s) : s[i] = NL}
    IN  IF nls = {} THEN <<s>>
        ELSE LET k == CHOOSE i \in nls : \A j \in nls : i <= j
             IN  <<SubSeq(s, 1, k - 1)>> \o SplitLines(SubSeq(s, k + 1, Len(s)))

\* every one of the n characters from index i is of one of the classes
AllAt(s, i, n, classes) ==
    /\ i >= 1
    /\ i + n - 1 <= Len(s)
    /\ \A j \in i..(i + n - 1) : s[j].t \in classes

\* ([squares]\s*){n} matched from index i: the index after the match, 0 if none
RECURSIVE GlyphRun(_, _, _)
GlyphRun(s, i, n) ==
    IF n = 0 THEN i
    ELSE IF i >= 1 /\ i <= Len(s) /\ IsSquare(s[i])
         THEN GlyphRun(s, SkipSpaces(s, i + 1), n - 1)
         ELSE 0

\* the least member of a non-empty set of indices (re.search is leftmost)
Leftmost(S) == CHOOSE i \in S : \A j \in S : i <= j

\* ------------------------------------------------------------- parse_guess
None == <<>>
NoGuess == [guess_word |-> None, emoji_result |-> None]

\* pattern_math_bold matches at index i
MathBoldAt(s, i) ==
    LET e == GlyphRun(s, i, WordLen)
    IN  e # 0 /\ AllAt(s, e, WordLen, {"mb"})

\* pattern1 matches at index i
Pattern1At(s, i) ==
    LET e == GlyphRun(s, i, WordLen)
    IN  /\ e # 0
        /\ AllAt(s, e, 2, {"st"})
        /\ AllAt(s, e + 2, WordLen, {"lo", "up"})
        /\ AllAt(s, e + 2 + WordLen, 2, {"st"})

\* pattern2 matches at index i
Pattern2At(s, i) ==
    /\ AllAt(s, i, WordLen, {"lo", "up"})
    /\ AllAt(s, SkipSpaces(s, i + WordLen), WordLen, {"sq"})

parse_guess(message) ==
    LET mb == {i \in 1..Len(message) : MathBoldAt(message, i)}
        p1 == {i \in 1..Len(message) : Pattern1At(message, i)}
        p2 == {i \in 1..Len(message) : Pattern2At(message, i)}
    IN  IF mb # {}
        THEN LET e == GlyphRun(message, Leftmost(mb), WordLen)
                 math_bold_word == SubSeq(message, e, e + WordLen - 1)
                 emoji_part == strip(SplitFirst(message, math_bold_word))
             IN  [guess_word |-> lower(convert_math_bold_to_regular(math_bold_word)),
                  emoji_result |-> RemoveSpaces(emoji_part)]
        ELSE IF p1 # {}
        THEN LET e == GlyphRun(message, Leftmost(p1), WordLen)
                 emoji_part == strip(SplitFirst(message, <<STAR, STAR>>))
             IN  [guess_word |-> lower(SubSeq(message, e + 2, e + 1 + WordLen)),
                  emoji_result |-> RemoveSpaces(emoji_part)]
        ELSE IF p2 # {}
        THEN LET i == Leftmost(p2)
                 j == SkipSpaces(message, i + WordLen)
             IN  [guess_word |-> lower(SubSeq(message, i, i + WordLen - 1)),
                  emoji_result |-> SubSeq(message, j, j + WordLen - 1)]
        ELSE NoGuess

\* a Python value used as a condition: None and '' are both false
Truthy(s) == s # None

\* -------------------------------------------------- parse_multiple_guesses
RECURSIVE ParseLines(_)
ParseLines(lines) ==
    IF lines = <<>> THEN <<>>
    ELSE LET line == strip(Head(lines))
             g == parse_guess(line)
         IN  IF line = <<>> THEN ParseLines(Tail(lines))
             ELSE IF Truthy(g.guess_word) /\ Truthy(g.emoji_result)
                  THEN <<g>> \o ParseLines(Tail(lines))
                  ELSE ParseLines(Tail(lines))

parse_multiple_guesses(message) == ParseLines(SplitLines(strip(message)))

\* --------------------------------------------------- filter_words_by_clues
\* variant: a yellow letter may stay where it was guessed
FilterPositionValid_YellowInPlace(word, guess_char, emoji, i) ==
    IF emoji = GREEN THEN word[i] = guess_char
    ELSE IF emoji = YELLOW THEN guess_char \in Range(word)
    ELSE IF emoji = RED THEN ~(guess_char \in Range(word))
    ELSE TRUE

\* variant: a red letter rejects nothing
FilterPositionValid_RedIgnored(word, guess_char, emoji, i) ==
    IF emoji = GREEN THEN word[i] = guess_char
    ELSE IF emoji = YELLOW
         THEN ~(guess_char \notin Range(word) \/ word[i] = guess_char)
    ELSE TRUE

\* variant: a red letter is excluded at its own position only
FilterPositionValid_RedHere(word, guess_char, emoji, i) ==
    IF emoji = GREEN THEN word[i] = guess_char
    ELSE IF emoji = YELLOW
         THEN ~(guess_char \notin Range(word) \/ word[i] = guess_char)
    ELSE IF emoji = RED THEN word[i] # guess_char
    ELSE TRUE

\* the body of the position loop: TRUE when position i does not reject word
FilterPositionValid(word, guess_char, emoji, i) ==
    IF emoji = GREEN THEN word[i] = guess_char
    ELSE IF emoji = YELLOW
         THEN ~(guess_char \notin Range(word) \/ word[i] = guess_char)
    ELSE IF emoji = RED THEN ~(guess_char \in Range(word))
    ELSE TRUE

\* for i, (guess_char, emoji) in enumerate(zip(guess_word, emoji_result))
RECURSIVE FilterPositions(_, _, _, _)
FilterPositions(word, guess_word, emoji_result, i) ==
    IF i > Min(Len(guess_word), Len(emoji_result)) THEN TRUE
    ELSE IF ~FilterPositionValid(word, guess_word[i], emoji_result[i], i) THEN FALSE
    ELSE FilterPositions(word, guess_word, emoji_result, i + 1)

\* for guess_word, emoji_result in clues, leaving at the first failure
RECURSIVE FilterClues(_, _)
FilterClues(word, clues) ==
    IF clues = <<>> THEN TRUE
    ELSE IF ~FilterPositions(word, Head(clues).guess_word, Head(clues).emoji_result, 1)
         THEN FALSE
    ELSE FilterClues(word, Tail(clues))

filter_words_by_clues(words, clues) ==
    SelectSeq(words, LAMBDA word : FilterClues(word, clues))

\* ------------------------------------------------------- word_matches_clue
MatchPositionValid(word, guess_char, emoji, i) ==
    IF emoji = GREEN THEN word[i] = guess_char
    ELSE IF emoji = YELLOW
         THEN ~(guess_char \notin Range(word) \/ word[i] = guess_char)
    ELSE IF emoji = RED THEN ~(guess_char \in Range(word))
    ELSE TRUE

RECURSIVE MatchPositions(_, _, _, _)
MatchPositions(word, guess_word, emoji_result, i) ==
    IF i > Min(Len(guess_word), Len(emoji_result)) THEN TRUE
    ELSE IF ~MatchPositionValid(word, guess_word[i], emoji_result[i], i) THEN FALSE
    ELSE MatchPositions(word, guess_word, emoji_result, i + 1)

word_matches_clue(word, guess_word, emoji_result) ==
    MatchPositions(word, guess_word, emoji_result, 1)

\* ------------------------------------------------------------------ scorer
\* freq[char] += 1 for char in set(word), for word in words
RECURSIVE get_letter_frequency(_)
get_letter_frequency(words) ==
    IF words = <<>> THEN [ch \in {} |-> 0]
    ELSE LET n == Len(words)
             freq == get_letter_frequency(SubSeq(words, 1, n - 1))
             chars == Range(words[n])
         IN  [ch \in (DOMAIN freq) \cup chars |->
                 (IF ch \in DOMAIN freq THEN freq[ch] ELSE 0)
                 + (IF ch \in chars THEN 1 ELSE 0)]

\* letter_freq is a defaultdict(int): a letter it does not hold reads as 0
FreqOf(letter_freq, ch) == IF ch \in DOMAIN letter_freq THEN letter_freq[ch] ELSE 0

RECURSIVE ScoreFrom(_, _, _, _)
ScoreFrom(word, letter_freq, i, used_letters) ==
    IF i > Len(word) THEN 0
    ELSE IF word[i] \notin used_letters
         THEN FreqOf(letter_freq, word[i])
              + ScoreFrom(word, letter_freq, i + 1, used_letters \cup {word[i]})
    ELSE ScoreFrom(word, letter_freq, i + 1, used_letters)

score_word(word, letter_freq) == ScoreFrom(word, letter_freq, 1, {})

\* variant: a later item of equal key replaces the best so far
RECURSIVE MaxByScore_LastWins(_, _, _, _)
MaxByScore_LastWins(words, letter_freq, i, best) ==
    IF i > Len(words) THEN words[best]
    ELSE IF score_word(words[i], letter_freq) >= score_word(words[best], letter_freq)
         THEN MaxByScore_LastWins(words, letter_freq, i + 1, i)
    ELSE MaxByScore_LastWins(words, letter_freq, i + 1, best)

\* max(words, key=...): the first item whose key no later item exceeds
RECURSIVE MaxByScore(_, _, _, _)
MaxByScore(words, letter_freq, i, best) ==
    IF i > Len(words) THEN words[best]
    ELSE IF score_word(words[i], letter_freq) > score_word(words[best], letter_freq)
         THEN MaxByScore(words, letter_freq, i + 1, i)
    ELSE MaxByScore(words, letter_freq, i + 1, best)

get_best_guess(words) ==
    IF words = <<>> THEN None
    ELSE IF Len(words) = 1 THEN words[1]
    ELSE MaxByScore(words, get_letter_frequency(words), 2, 1)

\* list.sort(key=lambda x: x[1], reverse=True) on (item, key) pairs: stable,
\* items of equal key keep their order
RECURSIVE InsertDesc(_, _)
InsertDesc(sorted, x) ==
    IF sorted = <<>> THEN <<x>>
    ELSE IF Head(sorted)[2] >= x[2] THEN <<Head(sorted)>> \o InsertDesc(Tail(sorted), x)
    ELSE <<x>> \o sorted

RECURSIVE SortDesc(_)
SortDesc(pairs) ==
    IF pairs = <<>> THEN <<>>
    ELSE InsertDesc(SortDesc(SubSeq(pairs, 1, Len(pairs) - 1)), pairs[Len(pairs)])

\* seq[:n]
Take(seq, n) == SubSeq(seq, 1, Min(n, Len(seq)))

\* [(word, score_word(word, letter_freq)) for word in words], sorted, words only
RankedByScore(words) ==
    LET letter_freq == get_letter_frequency(words)
        scored_words == SortDesc([k \in 1..Len(words) |->
                                    <<words[k], score_word(words[k], letter_freq)>>])
    IN  [k \in 1..Len(scored_words) |-> scored_words[k][1]]

\* ------------------------------------------------------------------ corpus
LoWord(s) == [i \in 1..Len(s) |-> Lo(s[i])]
UpWord(s) == [i \in 1..Len(s) |-> Up(s[i])]
MbWord(s) == [i \in 1..Len(s) |-> Mb(s[i])]

lamar == <<"l", "a", "m", "a", "r">>
fairy == <<"f", "a", "i", "r", "y">>
cliff == <<"c", "l", "i", "f", "f">>
lemma == <<"l", "e", "m", "m", "a">>
lotus == <<"l", "o", "t", "u", "s">>
about == <<"a", "b", "o", "u", "t">>

\* the words load_words() read from words.txt
WORD_LIST == <<LoWord(lamar), LoWord(fairy), LoWord(cliff), LoWord(lemma)>>

Squares == {GREEN, YELLOW, RED}
Patterns == [1..WordLen -> Squares]
Clue(g, p) == [guess_word |-> g, emoji_result |-> p]

\* ------------------------------------------------------------------- state
VARIABLES
    user_sessions,   \* the module-level dict: user id -> list of (word, emoji) clues
    update,          \* the update the dispatcher handed to a handler last
    reply,           \* what that handler passed to reply_text
    remaining_seen,  \* per user, remaining_words of the last accepted guess message
    f_words, f_clues, f_valid,   \* filter_words_by_clues: arguments and result
    s_words, s_best,             \* get_best_guess: argument and result
    p_src, p_line, p_parsed      \* parse_guess: the pair encoded, the line, the result

botVars == <<user_sessions, update, reply, remaining_seen>>
filterVars == <<f_words, f_clues, f_valid>>
scoreVars == <<s_words, s_best>>
parseVars == <<p_src, p_line, p_parsed>>
vars == <<user_sessions, update, reply, remaining_seen,
          f_words, f_clues, f_valid, s_words, s_best, p_src, p_line, p_parsed>>

Users == {"u1", "u2"}

\* ---------------------------------------------------------------- messages
\* squares separated by single spaces, with a trailing space
Spaced(pat) == [i \in 1..(2 * Len(pat)) |-> IF i % 2 = 1 THEN pat[(i + 1) \div 2] ELSE SP]

\* the three encodings of the welcome text
EncStyled(letters, pat) == Spaced(pat) \o MbWord(letters)
EncMarkup(word, pat) == Spaced(pat) \o <<STAR, STAR>> \o word \o <<STAR, STAR>>
EncLegacy(word, pat) == word \o <<SP>> \o pat

PatA == <<RED, YELLOW, RED, RED, RED>>
PatB == <<RED, GREEN, RED, YELLOW, RED>>
PatX == <<YELLOW, GREEN, RED, RED, YELLOW>>
PatG == <<GREEN, GREEN, GREEN, GREEN, GREEN>>

MsgStyled == EncStyled(cliff, PatA)
MsgMarkup == EncMarkup(UpWord(lamar), PatX)
MsgLegacy == EncLegacy(UpWord(fairy), PatB)
MsgExact == EncLegacy(LoWord(fairy), PatG)
MsgBatch == EncStyled(cliff, PatA) \o <<NL, Lo("h"), Lo("i"), NL, SP, NL>>
            \o EncLegacy(UpWord(fairy), PatB)
MsgExtraGlyph == <<GREEN>> \o EncStyled(fairy, PatB)
MsgWrapped == <<RED, YELLOW, RED, NL, RED, RED, SP, STAR, STAR>> \o UpWord(cliff)
              \o <<STAR, STAR>>
MsgRepeated == MbWord(cliff) \o <<SP>> \o EncStyled(cliff, PatA)
MsgJunk == <<Lo("h"), Lo("i"), HASH>>
MsgBlank == <<SP, NL, SP>>

Messages == {MsgStyled, MsgMarkup, MsgLegacy, MsgExact, MsgBatch, MsgExtraGlyph,
             MsgWrapped, MsgRepeated, MsgJunk, MsgBlank}

\* ---------------------------------------------------------------- handlers
NoUpdate == [kind |-> "none", user |-> "none", text |-> <<>>]
NoReply == [to |-> "none", kind |-> "none", remaining |-> <<>>, best |-> None,
            partial |-> <<>>, max_matches |-> 0, suggested |-> <<>>,
            others |-> <<>>, processed |-> 0]
Unseen == [known |-> FALSE, words |-> <<>>]
Seen(words) == [known |-> TRUE, words |-> words]

\* number of clues of the session that word matches, counted clue by clue
RECURSIVE CountMatches(_, _)
CountMatches(word, session) ==
    IF session = <<>> THEN 0
    ELSE (IF word_matches_clue(word, Head(session).guess_word, Head(session).emoji_result)
          THEN 1 ELSE 0)
         + CountMatches(word, Tail(session))

\* variant: a word matching fewer clues than the best is collected too
RECURSIVE BestMatchesFrom_Lower(_, _, _, _, _)
BestMatchesFrom_Lower(words, session, i, max_matches, best_matches) ==
    IF i > Len(words)
    THEN [max_matches |-> max_matches, best_matches |-> best_matches]
    ELSE LET matches == CountMatches(words[i], session)
         IN  IF matches > max_matches
             THEN BestMatchesFrom_Lower(words, session, i + 1, matches, <<words[i]>>)
             ELSE IF matches > 0
             THEN BestMatchesFrom_Lower(words, session, i + 1, max_matches,
                                        Append(best_matches, words[i]))
             ELSE BestMatchesFrom_Lower(words, session, i + 1, max_matches, best_matches)

\* handle_guess: the loop that collects the words matching the most clues
RECURSIVE BestMatchesFrom(_, _, _, _, _)
BestMatchesFrom(words, session, i, max_matches, best_matches) ==
    IF i > Len(words)
    THEN [max_matches |-> max_matches, best_matches |-> best_matches]
    ELSE LET matches == CountMatches(words[i], session)
         IN  IF matches > max_matches
             THEN BestMatchesFrom(words, session, i + 1, matches, <<words[i]>>)
             ELSE IF matches = max_matches /\ matches > 0
             THEN BestMatchesFrom(words, session, i + 1, max_matches,
                                  Append(best_matches, words[i]))
             ELSE BestMatchesFrom(words, session, i + 1, max_matches, best_matches)

BestMatches(words, session) == BestMatchesFrom(words, session, 1, 0, <<>>)

\* handle_guess: the green and yellow letters of every stored clue
ConfirmedLetters(session) ==
    {ch \in UNION {Range(session[k].guess_word) : k \in 1..Len(session)} :
        \E k \in 1..Len(session) :
            \E i \in 1..Min(Len(session[k].guess_word), Len(session[k].emoji_result)) :
                /\ session[k].guess_word[i] = ch
                /\ session[k].emoji_result[i] \in {GREEN, YELLOW}}

\* other_suggestions: word_scores, sorted by matches, cut to the leading group
PartialGroup(words, session) ==
    LET scored == SelectSeq([k \in 1..Len(words) |->
                                <<words[k], CountMatches(words[k], session)>>],
                            LAMBDA x : x[2] > 0)
        sorted_words == SortDesc(scored)
        max_matches == IF sorted_words = <<>> THEN 0 ELSE sorted_words[1][2]
        group == SelectSeq(sorted_words, LAMBDA x : x[2] = max_matches)
    IN  [max_matches |-> max_matches,
         words_with_current_matches |-> [k \in 1..Len(group) |-> group[k][1]]]

\* other_suggestions: the fixed list of common words
common_words == <<LoWord(about)>>
available_common == SelectSeq(common_words, LAMBDA w : w \in Range(WORD_LIST))

\* variant: the fallback is refused only when word and squares are both missing
GuessInvalid_Both(g) == ~Truthy(g.guess_word) /\ ~Truthy(g.emoji_result)

\* handle_guess: the clues the message yields, batch first, whole message second
GuessInvalid(g) == ~Truthy(g.guess_word) \/ ~Truthy(g.emoji_result)

GuessesOf(message_text) ==
    LET guesses == parse_multiple_guesses(message_text)
        g == parse_guess(message_text)
    IN  IF guesses # <<>> THEN guesses
        ELSE IF GuessInvalid(g) THEN <<>>
        ELSE <<g>>

\* GuessesOf is a function of the text alone: its value for each inbound text
InboundGuesses == [m \in Messages |-> GuessesOf(m)]

\* variant: the new clues are put in front of the stored ones
AppendGuesses_InFront(session, guesses) == guesses \o session

\* variant: the new clues replace the stored ones
AppendGuesses_Replace(session, guesses) == guesses

\* for guess_word, emoji_result in guesses: user_sessions[user_id].append(...)
AppendGuesses(session, guesses) == session \o guesses

StoredClues == Len(user_sessions["u1"]) + Len(user_sessions["u2"])

Start(u) ==
    /\ user_sessions' = [user_sessions EXCEPT ![u] = <<>>]
    /\ update' = [kind |-> "start", user |-> u, text |-> <<>>]
    /\ reply' = [NoReply EXCEPT !.to = u, !.kind = "welcome"]
    /\ remaining_seen' = [remaining_seen EXCEPT ![u] = Unseen]
    /\ UNCHANGED <<filterVars, scoreVars, parseVars>>

Reset(u) ==
    /\ user_sessions' = [user_sessions EXCEPT ![u] = <<>>]
    /\ update' = [kind |-> "reset", user |-> u, text |-> <<>>]
    /\ reply' = [NoReply EXCEPT !.to = u, !.kind = "reset"]
    /\ remaining_seen' = [remaining_seen EXCEPT ![u] = Unseen]
    /\ UNCHANGED <<filterVars, scoreVars, parseVars>>

OtherReply(u, session) ==
    LET remaining_words == filter_words_by_clues(WORD_LIST, session)
        pg == PartialGroup(WORD_LIST, session)
    IN  IF session = <<>>
        THEN [NoReply EXCEPT !.to = u, !.kind = "no_guesses"]
        ELSE IF remaining_words = <<>>
        THEN [NoReply EXCEPT !.to = u, !.kind = "other_no_match",
                 !.max_matches = pg.max_matches,
                 !.partial = Take(RankedByScore(pg.words_with_current_matches), 8),
                 !.suggested = Take(available_common, 5)]
        ELSE IF Len(remaining_words) = 1
        THEN [NoReply EXCEPT !.to = u, !.kind = "only_one",
                 !.remaining = remaining_words, !.best = remaining_words[1]]
        ELSE [NoReply EXCEPT !.to = u, !.kind = "alternatives",
                 !.remaining = remaining_words,
                 !.suggested = Take(RankedByScore(remaining_words), 8),
                 !.others = IF Len(remaining_words) <= 15 THEN remaining_words ELSE <<>>]

OtherSuggestions(u) ==
    /\ update' = [kind |-> "other", user |-> u, text |-> <<>>]
    /\ reply' = OtherReply(u, user_sessions[u])
    /\ UNCHANGED <<user_sessions, remaining_seen, filterVars, scoreVars, parseVars>>

GuessReply(u, session, guesses) ==
    LET remaining_words == filter_words_by_clues(WORD_LIST, session)
        bm == BestMatches(WORD_LIST, session)
        all_letters == ConfirmedLetters(session)
        suggested_words == SelectSeq(WORD_LIST,
                               LAMBDA w : \E letter \in all_letters : letter \in Range(w))
        best_guess == get_best_guess(remaining_words)
    IN  IF remaining_words = <<>>
        THEN [NoReply EXCEPT !.to = u, !.kind = "no_match",
                 !.max_matches = bm.max_matches,
                 !.partial = IF bm.best_matches # <<>> /\ bm.max_matches > 0
                             THEN Take(bm.best_matches, 15) ELSE <<>>,
                 !.suggested = Take(RankedByScore(suggested_words), 10)]
        ELSE [NoReply EXCEPT !.to = u,
                 !.kind = IF Len(remaining_words) = 1 THEN "found" ELSE "best_guess",
                 !.remaining = remaining_words,
                 !.best = best_guess,
                 !.others = IF Len(remaining_words) > 1 /\ Len(remaining_words) <= 10
                            THEN Take(SelectSeq(remaining_words,
                                                LAMBDA w : w # best_guess), 5)
                            ELSE <<>>,
                 !.processed = IF Len(guesses) > 1 THEN Len(guesses) ELSE 0]

HandleGuess(u, message_text) ==
    LET guesses == InboundGuesses[message_text]
        session == AppendGuesses(user_sessions[u], guesses)
    IN  /\ StoredClues + Len(guesses) <= MaxClues
        /\ update' = [kind |-> "text", user |-> u, text |-> message_text]
        /\ IF guesses = <<>>
           THEN /\ reply' = [NoReply EXCEPT !.to = u, !.kind = "format_error"]
                /\ UNCHANGED <<user_sessions, remaining_seen>>
           ELSE /\ user_sessions' = [user_sessions EXCEPT ![u] = session]
                /\ reply' = GuessReply(u, session, guesses)
                /\ remaining_seen' = [remaining_seen EXCEPT
                       ![u] = Seen(filter_words_by_clues(WORD_LIST, session))]
        /\ UNCHANGED <<filterVars, scoreVars, parseVars>>

IdleFilter == f_words = <<>> /\ f_clues = <<>> /\ f_valid = <<>>
IdleScore == s_words = <<>> /\ s_best = None
IdleParse == p_src = [enc |-> "none", word |-> <<>>, pattern |-> <<>>]
             /\ p_line = <<>> /\ p_parsed = NoGuess

Init ==
    /\ user_sessions = [u \in Users |-> <<>>]
    /\ update = NoUpdate
    /\ reply = NoReply
    /\ remaining_seen = [u \in Users |-> Unseen]
    /\ IdleFilter /\ IdleScore /\ IdleParse

Next ==
    \/ \E u \in Users : Start(u)
    \/ \E u \in Users : Reset(u)
    \/ \E u \in Users : OtherSuggestions(u)
    \/ \E u \in Users, m \in Messages : HandleGuess(u, m)

Spec == Init /\ [][Next]_vars

\* ------------------------------------------- filter_words_by_clues, alone
\* candidate lists: the corpus, each single word of it, and no word at all
FilterWordLists == {WORD_LIST, <<>>} \cup {<<WORD_LIST[k]>> : k \in 1..Len(WORD_LIST)}
FilterGuesses == {LoWord(lamar), LoWord(fairy), LoWord(cliff), LoWord(lotus)}
\* the clues a list already holding one clue is extended with
MoreClues == {Clue(LoWord(cliff), PatA), Clue(LoWord(fairy), PatB),
              Clue(LoWord(lamar), PatX)}

InitFilter ==
    /\ f_words \in FilterWordLists
    /\ f_clues = <<>>
    /\ f_valid = filter_words_by_clues(f_words, <<>>)
    /\ user_sessions = [u \in Users |-> <<>>]
    /\ update = NoUpdate
    /\ reply = NoReply
    /\ remaining_seen = [u \in Users |-> Unseen]
    /\ IdleScore /\ IdleParse

FilterFirst(g, p) ==
    /\ f_clues = <<>>
    /\ f_clues' = <<Clue(g, p)>>
    /\ f_valid' = filter_words_by_clues(f_words, f_clues')
    /\ UNCHANGED <<f_words, botVars, scoreVars, parseVars>>

FilterMore(c) ==
    /\ f_clues # <<>>
    /\ Len(f_clues) < MaxFilterClues
    /\ f_clues' = Append(f_clues, c)
    /\ f_valid' = filter_words_by_clues(f_words, f_clues')
    /\ UNCHANGED <<f_words, botVars, scoreVars, parseVars>>

NextFilter ==
    \/ \E g \in FilterGuesses, p \in Patterns : FilterFirst(g, p)
    \/ \E c \in MoreClues : FilterMore(c)

SpecFilter == InitFilter /\ [][NextFilter]_vars

\* -------------------------------------------------- get_best_guess, alone
ScoreWords == {LoWord(lamar), LoWord(fairy), LoWord(cliff), LoWord(lemma),
               LoWord(lotus), LoWord(about)}

InitScore ==
    /\ s_words = <<>>
    /\ s_best = get_best_guess(<<>>)
    /\ user_sessions = [u \in Users |-> <<>>]
    /\ update = NoUpdate
    /\ reply = NoReply
    /\ remaining_seen = [u \in Users |-> Unseen]
    /\ IdleFilter /\ IdleParse

ScoreAppend(w) ==
    /\ Len(s_words) < MaxCand
    /\ s_words' = Append(s_words, w)
    /\ s_best' = get_best_guess(s_words')
    /\ UNCHANGED <<botVars, filterVars, parseVars>>

NextScore == \E w \in ScoreWords : ScoreAppend(w)

SpecScore == InitScore /\ [][NextScore]_vars

\* ------------------------------------------------------ parse_guess, alone
\* words as typed, in mixed case
ParseWords == {UpWord(lamar), LoWord(fairy),
               <<Up("c"), Lo("l"), Lo("i"), Up("f"), Lo("f")>>,
               <<Lo("l"), Up("e"), Up("m"), Lo("m"), Lo("a")>>}
Encodings == {"styled", "styled_tight", "markup", "markup_tight", "legacy",
              "legacy_tight"}

\* the styled alphabet has capitals only: a letter is rendered by its capital
Styled(word) == [i \in 1..Len(word) |-> Mb(word[i].c)]

Encode(enc, word, pat) ==
    IF enc = "styled" THEN Spaced(pat) \o Styled(word)
    ELSE IF enc = "styled_tight" THEN pat \o Styled(word)
    ELSE IF enc = "markup" THEN EncMarkup(word, pat)
    ELSE IF enc = "markup_tight" THEN pat \o <<STAR, STAR>> \o word \o <<STAR, STAR>>
    ELSE IF enc = "legacy" THEN EncLegacy(word, pat)
    ELSE word \o pat

InitParse ==
    /\ IdleParse
    /\ user_sessions = [u \in Users |-> <<>>]
    /\ update = NoUpdate
    /\ reply = NoReply
    /\ remaining_seen = [u \in Users |-> Unseen]
    /\ IdleFilter /\ IdleScore

ParseLine(enc, word, pat) ==
    /\ p_src.enc = "none"
    /\ p_src' = [enc |-> enc, word |-> word, pattern |-> pat]
    /\ p_line' = Encode(enc, word, pat)
    /\ p_parsed' = parse_guess(p_line')
    /\ UNCHANGED <<botVars, filterVars, scoreVars>>

NextParse == \E enc \in Encodings, word \in ParseWords, pat \in Patterns :
                 ParseLine(enc, word, pat)

SpecParse == InitParse /\ [][NextParse]_vars

\* ================================================================== claims
\* the three rules of the filter, stated position by position for one clue
Consistent(w, clue) ==
    \A i \in (DOMAIN clue.guess_word) \cap (DOMAIN clue.emoji_result) :
        /\ clue.emoji_result[i] = GREEN => w[i] = clue.guess_word[i]
        /\ clue.emoji_result[i] = YELLOW =>
               (clue.guess_word[i] \in Range(w) /\ w[i] # clue.guess_word[i])
        /\ clue.emoji_result[i] = RED => clue.guess_word[i] \notin Range(w)

ConsistentWithAll(w, clues) == \A k \in 1..Len(clues) : Consistent(w, clues[k])

\* C1: filter_words_by_clues returns exactly the words of its input, in their
\* order, that satisfy the green, yellow and red rule at every position of
\* every clue: no satisfying word is dropped and no violating word is kept.
C1_FilterExact ==
    f_valid = SelectSeq(f_words, LAMBDA w : ConsistentWithAll(w, f_clues))

C1_Witness ==
    /\ f_words = WORD_LIST
    /\ Len(f_clues) = 2
    /\ f_valid # <<>>
    /\ f_valid # f_words

\* a stored clue is well formed: five lower-case letters and five squares
WellFormedClue(c) ==
    /\ Len(c.guess_word) = WordLen
    /\ \A i \in 1..Len(c.guess_word) : c.guess_word[i].t = "lo"
    /\ Len(c.emoji_result) = WordLen
    /\ \A i \in 1..Len(c.emoji_result) : c.emoji_result[i] \in Squares

\* C2: every clue stored in a session has a word of exactly five letters and
\* a pattern of exactly five colour squares, whatever precedes the matched run
\* of squares in the line.
C2_StoredCluesWellFormed ==
    \A u \in Users : \A k \in 1..Len(user_sessions[u]) :
        WellFormedClue(user_sessions[u][k])

\* the inbound texts that yield no clue, neither line by line nor as a whole
Unparseable ==
    {m \in Messages :
        /\ parse_multiple_guesses(m) = <<>>
        /\ ~(Truthy(parse_guess(m).guess_word) /\ Truthy(parse_guess(m).emoji_result))}

\* C3: a text that yields no clue from the batch parse and none from the
\* whole-message fallback is answered with the format error and changes no
\* session, neither the sender's nor anyone else's.
C3_FormatErrorKeepsSessions ==
    [][(update'.kind = "text" /\ update'.text \in Unparseable)
          => /\ reply'.kind = "format_error"
             /\ reply'.to = update'.user
             /\ user_sessions' = user_sessions]_vars

C3_Witness ==
    /\ update.kind = "text"
    /\ update.text = MsgRepeated
    /\ reply.kind = "format_error"
    /\ user_sessions[update.user] # <<>>

\* the clues of the lines of a text, in line order: blank lines and lines
\* that do not parse contribute nothing
LineClues(m) ==
    LET lines == SplitLines(strip(m))
        parsed == [k \in 1..Len(lines) |-> parse_guess(strip(lines[k]))]
    IN  SelectSeq(parsed, LAMBDA g : g.guess_word # <<>> /\ g.emoji_result # <<>>)

BatchClues == [m \in Messages |-> LineClues(m)]

IsPrefix(a, b) == Len(a) <= Len(b) /\ SubSeq(b, 1, Len(a)) = a

\* C4: a text whose lines parse to clues c1..ck, k >= 1, leaves the sender's
\* session equal to its previous clues followed by c1..ck in line order; a
\* session otherwise only ever grows at its end, or is emptied by /reset or
\* /start of its owner.
C4_AppendInOrder ==
    [][/\ (update'.kind = "text" /\ BatchClues[update'.text] # <<>>)
            => user_sessions' = [user_sessions EXCEPT ![update'.user] =
                                    user_sessions[update'.user] \o BatchClues[update'.text]]
       /\ \A u \in Users :
            \/ IsPrefix(user_sessions[u], user_sessions'[u])
            \/ /\ user_sessions'[u] = <<>>
               /\ update'.kind \in {"start", "reset"}
               /\ update'.user = u]_vars

C4_Witness ==
    /\ update.kind = "text"
    /\ update.text = MsgBatch
    /\ user_sessions[update.user] = <<Clue(LoWord(fairy), PatG),
                                      Clue(LoWord(cliff), PatA),
                                      Clue(LoWord(fairy), PatB)>>

\* C5: between two resets, the remaining words computed after an accepted
\* guess message are among those computed after the previous accepted message
\* of the same user; once none remains, none remains until a reset.
C5_CandidatesShrink ==
    [][\A u \in Users :
          (remaining_seen[u].known /\ remaining_seen'[u].known)
              => Range(remaining_seen'[u].words) \subseteq Range(remaining_seen[u].words)]_vars

C5_Witness ==
    \E u \in Users :
        /\ Len(user_sessions[u]) >= 2
        /\ remaining_seen[u].known
        /\ remaining_seen[u].words # <<>>
        /\ remaining_seen[u].words # filter_words_by_clues(WORD_LIST, <<user_sessions[u][1]>>)
        /\ update.kind = "text" /\ update.user = u

\* the pattern that marks Correct where w and g agree and Absent elsewhere
SelfPattern(w, g) == [i \in 1..WordLen |-> IF w[i] = g[i] THEN GREEN ELSE RED]

SelfCase ==
    /\ Len(f_words) = 1
    /\ Len(f_clues) = 1
    /\ f_clues[1].emoji_result = SelfPattern(f_words[1], f_clues[1].guess_word)

\* some letter of g, at a position where w differs, occurs in w
MisplacedLetter(w, g) == \E i \in 1..WordLen : g[i] # w[i] /\ g[i] \in Range(w)

\* C6 as stated: the filter keeps w under the clue made of Correct where w
\* and g agree and Absent elsewhere.
C6_SelfConsistent == SelfCase => f_valid = f_words

\* C6, amended: under that clue the filter keeps w exactly when no letter of
\* g at a position where w differs occurs anywhere in w, and returns the
\* empty list otherwise.
C6_SelfConsistentUnlessMisplaced ==
    SelfCase =>
        IF MisplacedLetter(f_words[1], f_clues[1].guess_word)
        THEN f_valid = <<>>
        ELSE f_valid = f_words

C6_Witness ==
    /\ SelfCase
    /\ f_words = <<LoWord(lamar)>>
    /\ f_clues[1].guess_word = LoWord(lotus)
    /\ f_valid = f_words

\* C7: a line built from a word and a pattern in any of the three encodings
\* parses to the lower-cased word and the same five squares in order.
C7_RoundTrip ==
    p_src.enc # "none"
        => p_parsed = [guess_word |-> [i \in 1..WordLen |-> Lo(p_src.word[i].c)],
                       emoji_result |-> p_src.pattern]

C7_Witness ==
    /\ p_src.enc = "styled"
    /\ p_src.word = <<Up("c"), Lo("l"), Lo("i"), Up("f"), Lo("f")>>
    /\ p_src.pattern = PatX
    /\ p_parsed.guess_word = LoWord(cliff)
    /\ p_parsed.emoji_result = PatX

\* the score of the contract: over the distinct letters of w, the number of
\* candidate words that contain the letter
RECURSIVE SumContaining(_, _)
SumContaining(letters, words) ==
    IF letters = {} THEN 0
    ELSE LET ch == CHOOSE x \in letters : TRUE
         IN  Cardinality({k \in 1..Len(words) : ch \in Range(words[k])})
             + SumContaining(letters \ {ch}, words)

ContractScore(w, words) == SumContaining(Range(w), words)

\* C8: for a non-empty candidate list, get_best_guess returns the first member
\* of the list whose score is maximal; a single candidate is returned as is.
C8_BestGuessFirstMax ==
    s_words # <<>> =>
        \E k \in 1..Len(s_words) :
            /\ s_best = s_words[k]
            /\ \A j \in 1..Len(s_words) :
                   ContractScore(s_words[j], s_words) <= ContractScore(s_words[k], s_words)
            /\ \A j \in 1..(k - 1) :
                   ContractScore(s_words[j], s_words) < ContractScore(s_words[k], s_words)

C8_Witness ==
    /\ s_words = <<LoWord(cliff), LoWord(lamar), LoWord(lemma)>>
    /\ ContractScore(LoWord(lamar), s_words) = ContractScore(LoWord(lemma), s_words)
    /\ ContractScore(LoWord(cliff), s_words) < ContractScore(LoWord(lamar), s_words)
    /\ s_best = LoWord(lamar)

\* the number of whole clues of a session that a word matches
ClueCount(w, session) ==
    Cardinality({k \in 1..Len(session) :
        word_matches_clue(w, session[k].guess_word, session[k].emoji_result)})

TopClueCount(session) ==
    CHOOSE n \in 0..Len(session) :
        /\ \A w \in Range(WORD_LIST) : ClueCount(w, session) <= n
        /\ n = 0 \/ \E w \in Range(WORD_LIST) : ClueCount(w, session) = n

NoneConsistent(session) ==
    \A w \in Range(WORD_LIST) : ~ConsistentWithAll(w, session)

\* C9: when the clues of the session leave no corpus word, handle_guess and
\* other_suggestions answer with the no-consistent-words response, and every
\* word surfaced as a partial match matches the greatest number of whole clues
\* any corpus word matches; none is surfaced when that number is zero.
C9_DegradedPartialMatches ==
    LET session == user_sessions[update.user]
    IN  /\ (update.kind = "text" /\ reply.kind # "format_error" /\ NoneConsistent(session))
              => reply.kind = "no_match"
        /\ (update.kind = "other" /\ session # <<>> /\ NoneConsistent(session))
              => reply.kind = "other_no_match"
        /\ reply.kind \in {"no_match", "other_no_match"}
              => /\ reply.to = update.user
                 /\ \A w \in Range(reply.partial) :
                        /\ w \in Range(WORD_LIST)
                        /\ ClueCount(w, session) = TopClueCount(session)
                        /\ ClueCount(w, session) > 0

C9_Witness ==
    /\ reply.kind = "no_match"
    /\ reply.partial # <<>>
    /\ \E w \in Range(WORD_LIST) :
           /\ w \notin Range(reply.partial)
           /\ ClueCount(w, user_sessions[reply.to]) > 0

\* a clue that marks one letter Absent at one position and Correct or Present
\* at another
Conflicting(clue) ==
    \E i, j \in 1..WordLen :
        /\ clue.guess_word[i] = clue.guess_word[j]
        /\ clue.emoji_result[i] = RED
        /\ clue.emoji_result[j] \in {GREEN, YELLOW}

\* C10: a clue list that holds a clue marking the same letter Absent at one
\* position and Correct or Present at another leaves no word of any candidate
\* list, whatever the other clues are.
C10_ConflictEliminatesAll ==
    (\E k \in 1..Len(f_clues) : Conflicting(f_clues[k])) => f_valid = <<>>

C10_Witness ==
    /\ f_words = WORD_LIST
    /\ f_clues = <<Clue(LoWord(cliff), PatA), Clue(LoWord(lamar), PatX)>>
    /\ filter_words_by_clues(f_words, <<f_clues[1]>>) # <<>>
    /\ f_valid = <<>>

====
